---------------------------- MODULE Spec2Model ----------------------------
(***************************************************************************)
(* A model of the GreenScheduling scheduler plugin: the per-node Score     *)
(* pipeline (node-label lookup, two authenticated telemetry GETs, the      *)
(* decay-weighted score), the shared TokenManager that the pipeline reads  *)
(* and refreshes without any lock, and the batch NormalizeScore step.      *)
(*                                                                         *)
(* Modelling conventions                                                   *)
(*  - time.Time is a natural number of clock ticks; the zero value of      *)
(*    time.Time is 0 and the clock starts at 1, so a fresh manager is      *)
(*    expired.  One tick is one second for expires_in and one hour for a   *)
(*    telemetry time bucket (the two are never compared).                  *)
(*  - an access token is a positive number (the serial number of the       *)
(*    exchange that issued it); the empty string is 0.                     *)
(*  - a *float64 of a telemetry response is <<>> (null) or <<v>>.          *)
(*  - float64 scores are carried in millionths (fixed point).              *)
(*  - the goroutines that run Score for different nodes interleave at the  *)
(*    reads and writes of the two TokenManager fields.                     *)
(***************************************************************************)
EXTENDS Integers, Sequences, FiniteSets, TLC

(***************************************************************************)
(* Bounds of the model.                                                    *)
(***************************************************************************)
MaxTime == 2
MaxLifetime == 2
MaxBatch == 3
MaxRaw == 3
MaxSlices == 1
MaxCalls == 2
MaxRenders == 2
MaxWeight == 2
MaxRate10 == 2
MaxHours == 5
MantissaBits == 4
IntBits == 24

(***************************************************************************)
(* Program constants: scoreScalingFactor, and framework.MaxNodeScore of    *)
(* the scheduling framework.  Micro is the fixed-point unit of a float64.  *)
(***************************************************************************)
scoreScalingFactor == 1000
MaxNodeScore == 100
Micro == 1000 * 1000

\* the nodes of one scheduling cycle: Score runs once for each, concurrently
Nodes == {1, 2}
NumNodes == Cardinality(Nodes)
Lifetimes == 0..MaxLifetime

VARIABLES
    now,            \* time.Now()
    tokenInfo,      \* TokenManager.tokenInfo: [Token, Expiry]
    expiryFrom,     \* history: the access token of the response whose expires_in gave tokenInfo.Expiry
    promised,       \* history: the latest instant t + e over all refreshes stored so far with e > 0
    issued,         \* token endpoint: number of tokens issued so far
    pc,             \* per node: where its Score call stands
    phase,          \* per node: the telemetry endpoint the client call in progress is for
    tokenResp,      \* per node: GenerateToken's decoded TokenResponse
    token,          \* per node: what GetToken returned to doGetRequest
    tokPosts,       \* per node: token exchanges issued by the GetToken call in progress
    http,           \* per node: the HTTP requests the Score call has issued, in order
    wire,           \* the Authorization header of the request http.DefaultClient sent last
    labelRes,       \* per node: what GetNodeLabelValue returned
    usageByEntity,  \* per node: the decoded usage-by-entity response
    usageSeries,    \* per node: the decoded usage-series response
    result,         \* per node: what Score returned
    rawScores,      \* the batch handed to NormalizeScore
    scores,         \* the batch as NormalizeScore leaves it
    normStatus,     \* "idle", "called", "returned" or "panic"
    slices,         \* sicparams: the backing arrays of the []string values handed to NewFilter
    newFilter,      \* sicparams: what the last NewFilter call returned
    newSort,        \* sicparams: what the last NewSort call returned
    sicParams,      \* sicparams: the Params under construction
    value,          \* sicparams: what the last Filter.GetValue call returned
    query,          \* sicparams: what the last ToQueryParams call returned
    calls,          \* history: the Add... calls made on sicParams, in order
    renders,        \* history: number of GetValue and ToQueryParams calls made so far
    scoreIn,        \* scoring model: the responses and weights a score is computed from
    scoreOut,       \* scoring model: the score computed from scoreIn
    decayIn,        \* scoring model: a decay rate, a latest time and two sample times
    decayOut,       \* scoring model: the decay factors of the two samples
    sumIn,          \* scoring model: emission points, a reordering of them, the decay rate
    sumOut          \* scoring model: what calculateCO2WeightedScore made of either order

tokenVars == <<tokenInfo, expiryFrom, promised, issued>>
scoreVars == <<pc, phase, tokenResp, token, tokPosts, http, wire, labelRes, usageByEntity,
               usageSeries, result>>
normVars == <<rawScores, scores, normStatus>>
paramVars == <<slices, newFilter, newSort, sicParams, value, query, calls, renders>>
modelVars == <<scoreIn, scoreOut, decayIn, decayOut, sumIn, sumOut>>
libVars == <<paramVars, modelVars>>
vars == <<now, tokenVars, scoreVars, normVars, libVars>>

(***************************************************************************)
(* Go arithmetic.                                                          *)
(***************************************************************************)
Abs(x) == IF x < 0 THEN -x ELSE x

\* Go's integer division and float-to-int conversion truncate toward zero.
GoDiv(a, b) == IF (a >= 0) = (b > 0) THEN Abs(a) \div Abs(b) ELSE -(Abs(a) \div Abs(b))

\* Go's signed integer arithmetic wraps around silently.  int64 has 64 bits;
\* the model's integers have IntBits bits.
Int64(x) ==
    LET r == x % (2^IntBits)
    IN  IF r >= 2^(IntBits - 1) THEN r - 2^IntBits ELSE r


(***************************************************************************)
(* Configuration: the plugin's Config, loaded once by New.  The values are *)
(* ones ValidateGreenSchedulingArgs accepts (weights >= 0, decay rate in   *)
(* [0, 1]); the decay rate is held in tenths.                              *)
(***************************************************************************)
config ==
    [CO2DecayWeight |-> 2, TotalCO2Weight |-> 1, CostWeight |-> 1, DecayRate10 |-> 1]

(***************************************************************************)
(* sicresponse: nullable telemetry fields and their accessors.             *)
(***************************************************************************)
Nil == <<>>
Ptr(v) == <<v>>

\* UsageEntity.GetCo2eMetricTon, UsageSeriesItem.GetCo2eMetricTon
GetCo2eMetricTon(e) == IF e.Co2eMetricTon = Nil THEN 0 ELSE e.Co2eMetricTon[1]

\* UsageEntity.GetCostUsd
GetCostUsd(e) == IF e.CostUsd = Nil THEN 0 ELSE e.CostUsd[1]

\* UsageSeriesItem.GetTimeBucket: time.Parse(time.RFC3339, u.TimeBucket)
GetTimeBucket(u) ==
    IF u.TimeBucket.valid
    THEN [err |-> FALSE, time |-> u.TimeBucket.hour]
    ELSE [err |-> TRUE, time |-> 0]

(***************************************************************************)
(* sustainabilityprofile: the decay-weighted scoring model.  A float64 is  *)
(* a number of millionths; CalculateScore returns the exact fraction       *)
(* num / den of millionths, because of the cost term's division.           *)
(***************************************************************************)
\* 10^6 * exp(-x) / (1 + exp(-x)) for x = 0.0, 0.1, ..., 3.0
DecayTable ==
    <<500000, 475021, 450166, 425557, 401312, 377541, 354344, 331812, 310026,
      289050, 268941, 249740, 231475, 214165, 197816, 182426, 167982, 154465,
      141851, 130108, 119203, 109097, 99750, 91123, 83173, 75858, 69138, 62973,
      57324, 52154, 47426>>

\* DecayParameters
NewDecayParameters(latestTime, decayRate10) ==
    [LatestTime |-> latestTime, DecayRate10 |-> decayRate10]

\* variant of CalculateDecayFactor: the test is timeDifference > 0
CalculateDecayFactorStrict(e, params) ==
    LET timeDifference == params.LatestTime - e.Time
    IN  IF timeDifference > 0
        THEN DecayTable[params.DecayRate10 * timeDifference + 1]
        ELSE Micro

\* EmissionDataPoint.CalculateDecayFactor, in millionths
CalculateDecayFactor(e, params) ==
    LET timeDifference == params.LatestTime - e.Time
    IN  IF timeDifference >= 0
        THEN DecayTable[params.DecayRate10 * timeDifference + 1]
        ELSE Micro

\* the scan for the latest timestamp, first element as seed
RECURSIVE LatestTimeFrom(_, _, _)
LatestTimeFrom(emissions, i, latestTime) ==
    IF i > Len(emissions) THEN latestTime
    ELSE LatestTimeFrom(emissions, i + 1,
            IF emissions[i].Time > latestTime THEN emissions[i].Time ELSE latestTime)

RECURSIVE WeightedCO2From(_, _, _, _)
WeightedCO2From(emissions, i, latestTime, decayRate10) ==
    IF i > Len(emissions) THEN 0
    ELSE CalculateDecayFactor(emissions[i], NewDecayParameters(latestTime, decayRate10))
            * emissions[i].Co2
         + WeightedCO2From(emissions, i + 1, latestTime, decayRate10)

\* SustainabilityProfile.calculateCO2WeightedScore, in millionths
calculateCO2WeightedScore(data, co2Weight, decayRate10) ==
    IF Len(data.Emissions) = 0 THEN 0
    ELSE LET latestTime == LatestTimeFrom(data.Emissions, 1, data.Emissions[1].Time)
         IN  co2Weight * WeightedCO2From(data.Emissions, 1, latestTime, decayRate10)

\* variant of calculateTotalCO2WeightedScore: the weight is left out
calculateTotalCO2WeightedScoreUnweighted(data, totalCO2Weight) == data.TotalCo2 * Micro

\* SustainabilityProfile.calculateTotalCO2WeightedScore, in millionths
calculateTotalCO2WeightedScore(data, totalCO2Weight) ==
    totalCO2Weight * data.TotalCo2 * Micro

\* SustainabilityProfile.CalculateScore: the fraction num / den of millionths,
\* the cost term being costWeight / (1 + TotalCost)
CalculateScore(data, weights) ==
    LET co2WeightedScore ==
            calculateCO2WeightedScore(data, weights.CO2DecayWeight, weights.DecayRate10)
        totalCO2WeightedScore ==
            calculateTotalCO2WeightedScore(data, weights.TotalCO2Weight)
        den == 1 + data.TotalCost
    IN  [num |-> (co2WeightedScore + totalCO2WeightedScore) * den
                    + weights.CostWeight * Micro,
         den |-> den]

(***************************************************************************)
(* GreenScheduling: the pure parts of Score.                               *)
(***************************************************************************)
\* variant of buildEmissionDataPoints: a sample whose time bucket does not
\* parse is skipped (continue in place of return)
RECURSIVE buildEmissionDataPointsSkip(_)
buildEmissionDataPointsSkip(items) ==
    IF items = <<>> THEN [err |-> FALSE, dataPoints |-> <<>>]
    ELSE LET timeBucket == GetTimeBucket(Head(items))
             rest == buildEmissionDataPointsSkip(Tail(items))
         IN  [err |-> FALSE,
              dataPoints |-> IF timeBucket.err THEN rest.dataPoints
                             ELSE <<[Co2 |-> GetCo2eMetricTon(Head(items)),
                                     Time |-> timeBucket.time]>> \o rest.dataPoints]

\* buildEmissionDataPoints: the first unparsable time bucket aborts
RECURSIVE buildEmissionDataPoints(_)
buildEmissionDataPoints(items) ==
    IF items = <<>> THEN [err |-> FALSE, dataPoints |-> <<>>]
    ELSE LET timeBucket == GetTimeBucket(Head(items))
             rest == buildEmissionDataPoints(Tail(items))
         IN  IF timeBucket.err \/ rest.err
             THEN [err |-> TRUE, dataPoints |-> <<>>]
             ELSE [err |-> FALSE,
                   dataPoints |-> <<[Co2 |-> GetCo2eMetricTon(Head(items)),
                                     Time |-> timeBucket.time]>> \o rest.dataPoints]

\* variant of calculateSustainabilityScore: an empty aggregate is scored as
\* zero totals instead of being answered 0.0
calculateSustainabilityScoreNoGuard(items, dataPoints) ==
    CalculateScore([Emissions |-> dataPoints,
                    TotalCo2 |-> IF Len(items) = 0 THEN 0 ELSE GetCo2eMetricTon(items[1]),
                    TotalCost |-> IF Len(items) = 0 THEN 0 ELSE GetCostUsd(items[1])],
                   config)

\* variant of calculateSustainabilityScore: the totals of the last entity
\* are used in place of those of Items[0]
calculateSustainabilityScoreLast(items, dataPoints) ==
    IF Len(items) = 0 THEN [num |-> 0, den |-> 1]
    ELSE CalculateScore([Emissions |-> dataPoints,
                         TotalCo2 |-> GetCo2eMetricTon(items[Len(items)]),
                         TotalCost |-> GetCostUsd(items[Len(items)])],
                        config)

\* calculateSustainabilityScore: 0.0 for an empty aggregate, else the model's score
calculateSustainabilityScore(items, dataPoints) ==
    IF Len(items) = 0 THEN [num |-> 0, den |-> 1]
    ELSE CalculateScore([Emissions |-> dataPoints,
                         TotalCo2 |-> GetCo2eMetricTon(items[1]),
                         TotalCost |-> GetCostUsd(items[1])],
                        config)

\* scaledScore := int64(score * scoreScalingFactor)
ScaledScore(score) == GoDiv(score.num, score.den * (Micro \div scoreScalingFactor))


(***************************************************************************)
(* The environment: what the cluster API, the token endpoint and the two   *)
(* telemetry endpoints may answer.                                         *)
(***************************************************************************)
\* kubeinfo.GetNodeLabelValue: the label's value, one of the two not-found
\* errors, or any other error of the cluster API
LabelOutcomes == {"found", "ErrNodeNotFound", "ErrLabelNotFound", "failed to get node"}

\* an HTTP round trip ends in a transport error, a non-200 status, a 200
\* whose body does not decode, or a 200 with a decoded body
FailureKinds == {"transport error", "non-200", "undecodable"}

Entity(co2, cost) == [Co2eMetricTon |-> co2, CostUsd |-> cost]
Sample(valid, hour, co2) ==
    [TimeBucket |-> [valid |-> valid, hour |-> hour], Co2eMetricTon |-> co2]

\* the Items of a decoded UsageByEntityResponse
EntityItems ==
    { <<>>,
      <<Entity(Ptr(10), Ptr(5))>>,
      <<Entity(Ptr(0 - 2), Nil), Entity(Ptr(10), Ptr(5))>> }

\* the Items of a decoded UsageSeriesResponse
SeriesItems ==
    { <<>>,
      <<Sample(TRUE, 0, Ptr(1)), Sample(TRUE, 2, Ptr(2)), Sample(TRUE, 1, Nil)>>,
      <<Sample(TRUE, 1, Ptr(3)), Sample(FALSE, 0, Ptr(1))>> }

TelemetryResponses(items) ==
    { [kind |-> k, Items |-> <<>>] : k \in FailureKinds }
        \cup { [kind |-> "ok", Items |-> i] : i \in items }

\* the token endpoint issues a new access token with every exchange it grants
TokenEndpointResponses ==
    { [kind |-> k, AccessToken |-> 0, ExpiresIn |-> 0] : k \in FailureKinds }
        \cup { [kind |-> "ok", AccessToken |-> issued + 1, ExpiresIn |-> e] : e \in Lifetimes }

(***************************************************************************)
(* framework.Status and the values a Score call holds.                     *)
(***************************************************************************)
Success(score) == [score |-> score, status |-> "Success"]
Error == [score |-> 0, status |-> "Error"]
NoResult == [score |-> 0, status |-> "none"]
NoResponse == [kind |-> "none", Items |-> <<>>]
NoTokenResp == [kind |-> "none", AccessToken |-> 0, ExpiresIn |-> 0]

Request(method, url, ok) == [method |-> method, url |-> url, ok |-> ok]

\* variant of Authorization: the header is read from the token manager's
\* store when the request is sent
AuthorizationFromStore(tok) == tokenInfo.Token

\* req.Header.Set("Authorization", fmt.Sprintf("Bearer %s", token)) with the
\* token GetToken returned to doGetRequest
Authorization(tok) == tok

(***************************************************************************)
(* The state of the sicparams and sustainabilityprofile values before any  *)
(* call on them: sicparams.New() and nothing constructed or computed.      *)
(***************************************************************************)
NoArgs == [key |-> "", second |-> "", kind |-> "none", str |-> "", elems |-> <<>>]
NoObject == [status |-> "none", obj |-> <<>>, args |-> NoArgs]
NoValue == [status |-> "none", text |-> ""]
NoQuery == [status |-> "none", filter |-> <<>>, sort |-> <<>>, offset |-> <<>>, limit |-> <<>>]

\* sicparams.New
New == [filters |-> <<>>, sorts |-> <<>>, offset |-> Nil, limit |-> Nil]

ParamsIdle ==
    /\ slices = <<>>
    /\ newFilter = NoObject
    /\ newSort = NoObject
    /\ sicParams = New
    /\ value = NoValue
    /\ query = NoQuery
    /\ calls = <<>>
    /\ renders = 0

NoScoreIn == [entity |-> <<>>, series |-> <<>>, weights |-> config]
NoScoreOut ==
    [calculated |-> FALSE, score |-> [num |-> 0, den |-> 1], returned |-> FALSE, result |-> NoResult]
NoDecayIn == [rate10 |-> 0, latest |-> 0, first |-> 0, second |-> 0]
NoDecayOut == [status |-> "none", first |-> 0, second |-> 0]
NoSumIn == [emissions |-> <<>>, order |-> <<>>, rate10 |-> 0]
NoSum == [called |-> FALSE, latestTime |-> 0, elapsed |-> <<>>, factors |-> <<>>, score |-> 0]
NoSumOut == [given |-> NoSum, reordered |-> NoSum]

ModelIdle ==
    /\ scoreIn = NoScoreIn
    /\ scoreOut = NoScoreOut
    /\ decayIn = NoDecayIn
    /\ decayOut = NoDecayOut
    /\ sumIn = NoSumIn
    /\ sumOut = NoSumOut

\* no Score call in progress on a fresh TokenManager, and no batch
ScoreIdle ==
    /\ now = 1
    /\ tokenInfo = [Token |-> 0, Expiry |-> 0]
    /\ expiryFrom = 0
    /\ promised = 0
    /\ issued = 0
    /\ pc = [n \in Nodes |-> "done"]
    /\ phase = [n \in Nodes |-> "none"]
    /\ tokenResp = [n \in Nodes |-> NoTokenResp]
    /\ token = [n \in Nodes |-> 0]
    /\ tokPosts = [n \in Nodes |-> 0]
    /\ http = [n \in Nodes |-> <<>>]
    /\ wire = 0
    /\ labelRes = [n \in Nodes |-> "none"]
    /\ usageByEntity = [n \in Nodes |-> NoResponse]
    /\ usageSeries = [n \in Nodes |-> NoResponse]
    /\ result = [n \in Nodes |-> NoResult]
    /\ rawScores = <<>>
    /\ scores = <<>>
    /\ normStatus = "idle"

Init ==
    /\ now = 1
    /\ tokenInfo = [Token |-> 0, Expiry |-> 0]
    /\ expiryFrom = 0
    /\ promised = 0
    /\ issued = 0
    /\ pc = [n \in Nodes |-> "Score"]
    /\ phase = [n \in Nodes |-> "none"]
    /\ tokenResp = [n \in Nodes |-> NoTokenResp]
    /\ token = [n \in Nodes |-> 0]
    /\ tokPosts = [n \in Nodes |-> 0]
    /\ http = [n \in Nodes |-> <<>>]
    /\ wire = 0
    /\ labelRes = [n \in Nodes |-> "none"]
    /\ usageByEntity = [n \in Nodes |-> NoResponse]
    /\ usageSeries = [n \in Nodes |-> NoResponse]
    /\ result = [n \in Nodes |-> NoResult]
    /\ rawScores = <<>>
    /\ scores = <<>>
    /\ normStatus = "idle"
    /\ ParamsIdle
    /\ ModelIdle

(***************************************************************************)
(* TokenManager.                                                           *)
(***************************************************************************)
\* GetToken's test: time.Now().After(tm.tokenInfo.Expiry)
Expired(t, expiry) == t > expiry

\* variant of NewExpiry: the lifetime is not added
NewExpiryNoLifetime(t, expiresIn) == t

\* GenerateToken's new expiry: time.Now().Add(ExpiresIn * time.Second)
NewExpiry(t, expiresIn) == t + expiresIn

\* variant of GetTokenOnError: the stored token is returned and the error dropped
GetTokenOnErrorStored(stored) == [token |-> stored, err |-> FALSE]

\* what GetToken returns when RefreshToken failed: return "", err
GetTokenOnError(stored) == [token |-> 0, err |-> TRUE]

\* variant of AfterFailedExchange: the stored token is reset to the zero value
AfterFailedExchangeReset(info) == [Token |-> 0, Expiry |-> 0]

\* tokenInfo after an exchange that failed: GenerateToken returns at the
\* transport error, the status check or the decoding, before its assignments
AfterFailedExchange(info) == info

\* Score returns: its result is kept, the locals of the client call end
Return(n, res) ==
    /\ result' = [result EXCEPT ![n] = res]
    /\ pc' = [pc EXCEPT ![n] = "done"]
    /\ phase' = [phase EXCEPT ![n] = "none"]
    /\ tokenResp' = [tokenResp EXCEPT ![n] = NoTokenResp]
    /\ token' = [token EXCEPT ![n] = 0]
    /\ tokPosts' = [tokPosts EXCEPT ![n] = 0]

\* variant of IsNotFound: every error of the lookup is tolerated
IsNotFoundAnyError(out) == out # "found"

\* variant of IsNotFound: only the missing label is tolerated
IsNotFoundLabelOnly(out) == out = "ErrLabelNotFound"

\* errors.Is(err, kubeinfo.ErrNodeNotFound) || errors.Is(err, kubeinfo.ErrLabelNotFound)
IsNotFound(out) == out \in {"ErrNodeNotFound", "ErrLabelNotFound"}

\* Score, up to the first client call: getNodeSerialNum and buildSicParams.
\* NewFilter is given FilterKeyEntitySerialNum and FilterOperatorEquals, which
\* it accepts, so building the parameters does not fail.
ScoreBegin(n) ==
    /\ pc[n] = "Score"
    /\ \E out \in LabelOutcomes :
        /\ labelRes' = [labelRes EXCEPT ![n] = out]
        /\ IF IsNotFound(out)
           THEN Return(n, Success(0))
           ELSE IF out # "found"
           THEN Return(n, Error)
           ELSE /\ pc' = [pc EXCEPT ![n] = "GetToken"]
                /\ phase' = [phase EXCEPT ![n] = "usage-by-entity"]
                /\ UNCHANGED <<result, tokenResp, token, tokPosts>>
    /\ UNCHANGED <<now, wire, tokenVars, http, usageByEntity, usageSeries, normVars, libVars>>

\* doGetRequest calls GetToken, which reads the stored expiry
GetTokenCheck(n) ==
    /\ pc[n] = "GetToken"
    /\ pc' = [pc EXCEPT ![n] =
                IF Expired(now, tokenInfo.Expiry) THEN "GenerateToken" ELSE "ReturnToken"]
    /\ UNCHANGED <<now, wire, tokenVars, phase, tokenResp, token, tokPosts, http, labelRes,
                   usageByEntity, usageSeries, result, normVars, libVars>>

\* GenerateToken, up to the decoded response: the POST to the token endpoint.
\* A failure leaves tokenInfo alone and GetToken returns "", err, which
\* doGetRequest, fetchSicData and Score hand on.
GenerateTokenPost(n) ==
    /\ pc[n] = "GenerateToken"
    /\ \E resp \in TokenEndpointResponses :
        /\ http' = [http EXCEPT ![n] = Append(@, Request("POST", "token", resp.kind = "ok"))]
        /\ IF resp.kind = "ok"
           THEN /\ issued' = issued + 1
                /\ tokenResp' = [tokenResp EXCEPT ![n] = resp]
                /\ tokPosts' = [tokPosts EXCEPT ![n] = @ + 1]
                /\ pc' = [pc EXCEPT ![n] = "StoreToken"]
                /\ UNCHANGED <<tokenInfo, phase, token, result>>
           ELSE /\ UNCHANGED issued
                /\ tokenInfo' = AfterFailedExchange(tokenInfo)
                /\ IF GetTokenOnError(tokenInfo.Token).err
                   THEN Return(n, Error)
                   ELSE /\ token' = [token EXCEPT ![n] = GetTokenOnError(tokenInfo.Token).token]
                        /\ tokPosts' = [tokPosts EXCEPT ![n] = @ + 1]
                        /\ pc' = [pc EXCEPT ![n] = "Get"]
                        /\ UNCHANGED <<phase, tokenResp, result>>
    /\ UNCHANGED <<now, wire, expiryFrom, promised, labelRes, usageByEntity,
                   usageSeries, normVars, libVars>>

\* tm.tokenInfo.Token = tokenResp.AccessToken
StoreToken(n) ==
    /\ pc[n] = "StoreToken"
    /\ tokenInfo' = [tokenInfo EXCEPT !.Token = tokenResp[n].AccessToken]
    /\ pc' = [pc EXCEPT ![n] = "StoreExpiry"]
    /\ UNCHANGED <<now, wire, expiryFrom, promised, issued, phase, tokenResp, token, tokPosts,
                   http, labelRes, usageByEntity, usageSeries, result, normVars, libVars>>

\* tm.tokenInfo.Expiry = time.Now().Add(time.Duration(tokenResp.ExpiresIn) * time.Second)
StoreExpiry(n) ==
    /\ pc[n] = "StoreExpiry"
    /\ tokenInfo' = [tokenInfo EXCEPT !.Expiry = NewExpiry(now, tokenResp[n].ExpiresIn)]
    /\ expiryFrom' = tokenResp[n].AccessToken
    /\ promised' = IF tokenResp[n].ExpiresIn > 0 /\ now + tokenResp[n].ExpiresIn > promised
                   THEN now + tokenResp[n].ExpiresIn
                   ELSE promised
    /\ pc' = [pc EXCEPT ![n] = "ReturnToken"]
    /\ UNCHANGED <<now, wire, issued, phase, tokenResp, token, tokPosts, http, labelRes,
                   usageByEntity, usageSeries, result, normVars, libVars>>

\* return tm.tokenInfo.Token, nil
ReturnToken(n) ==
    /\ pc[n] = "ReturnToken"
    /\ token' = [token EXCEPT ![n] = tokenInfo.Token]
    /\ tokenResp' = [tokenResp EXCEPT ![n] = NoTokenResp]
    /\ pc' = [pc EXCEPT ![n] = "Get"]
    /\ UNCHANGED <<now, wire, tokenVars, phase, tokPosts, http, labelRes, usageByEntity,
                   usageSeries, result, normVars, libVars>>

(***************************************************************************)
(* sicclient.Client and the rest of Score.                                 *)
(***************************************************************************)
\* what Score returns once both responses are decoded: buildEmissionDataPoints,
\* calculateSustainabilityScore and the scaling
ScoreOf(entityItems, seriesItems) ==
    LET built == buildEmissionDataPoints(seriesItems)
    IN  IF built.err
        THEN Error
        ELSE Success(ScaledScore(calculateSustainabilityScore(entityItems, built.dataPoints)))

\* fetchSicData with the aggregate error check after the series call
\* (a variant)
fetchSicDataContinue(call, ok) ==
    IF call = "usage-by-entity" THEN "usage-series"
    ELSE IF ~ok THEN "error"
    ELSE "build"

\* fetchSicData: what follows a client call that has returned.  An error of
\* either call is returned at once, GetUsageSeries follows a good
\* GetUsageByEntity, and Score goes on to buildEmissionDataPoints after a
\* good GetUsageSeries.
fetchSicData(call, ok) ==
    IF ~ok THEN "error"
    ELSE IF call = "usage-by-entity" THEN "usage-series"
    ELSE "build"

\* doGetRequest after GetToken: the GET with the bearer token, the status
\* check and the decoding.  fetchSicData issues the usage-by-entity call,
\* then the usage-series call, and stops at the first error.
DoGet(n) ==
    /\ pc[n] = "Get"
    /\ \E resp \in TelemetryResponses(IF phase[n] = "usage-by-entity"
                                      THEN EntityItems ELSE SeriesItems) :
        /\ http' = [http EXCEPT ![n] = Append(@, Request("GET", phase[n], resp.kind = "ok"))]
        /\ wire' = Authorization(token[n])
        /\ IF fetchSicData(phase[n], resp.kind = "ok") = "error"
           THEN Return(n, Error) /\ UNCHANGED <<usageByEntity, usageSeries>>
           ELSE IF fetchSicData(phase[n], resp.kind = "ok") = "usage-series"
           THEN /\ usageByEntity' = [usageByEntity EXCEPT ![n] = resp]
                /\ phase' = [phase EXCEPT ![n] = "usage-series"]
                /\ token' = [token EXCEPT ![n] = 0]
                /\ tokPosts' = [tokPosts EXCEPT ![n] = 0]
                /\ pc' = [pc EXCEPT ![n] = "GetToken"]
                /\ UNCHANGED <<usageSeries, result, tokenResp>>
           ELSE /\ usageSeries' = [usageSeries EXCEPT ![n] = resp]
                /\ Return(n, ScoreOf(usageByEntity[n].Items, resp.Items))
                /\ UNCHANGED usageByEntity
    /\ UNCHANGED <<now, tokenVars, labelRes, normVars, libVars>>

(***************************************************************************)
(* NormalizeScore.  The product of the second loop is an int64.            *)
(***************************************************************************)
\* the first loop: var higherScore int64, raised to the largest score
RECURSIVE HigherScoreFrom(_, _, _)
HigherScoreFrom(batch, i, higherScore) ==
    IF i > Len(batch) THEN higherScore
    ELSE HigherScoreFrom(batch, i + 1,
            IF higherScore < batch[i].Score THEN batch[i].Score ELSE higherScore)

\* variant of Rescale: the inverted scale of the plugin's earlier version,
\* MaxNodeScore - (score * MaxNodeScore / higherScore)
RescaleInverted(score, higherScore) == MaxNodeScore - GoDiv(score * MaxNodeScore, higherScore)

\* the second loop's right-hand side: node.Score * framework.MaxNodeScore / higherScore
Rescale(score, higherScore) == GoDiv(Int64(score * MaxNodeScore), higherScore)

\* variant of NormalizeScore: the first node's score is taken as the highest
NormalizeScoreByFirst(batch) ==
    IF Len(batch) > 0 /\ batch[1].Score = 0
    THEN [status |-> "panic", scores |-> batch]
    ELSE [status |-> "returned",
          scores |-> [i \in 1..Len(batch) |->
                        [batch[i] EXCEPT !.Score = Rescale(@, batch[1].Score)]]]

\* An integer division by zero panics in Go: the second loop's first pass
\* panics when higherScore is 0, before anything is written.
NormalizeScore(batch) ==
    LET higherScore == HigherScoreFrom(batch, 1, 0)
    IN  IF Len(batch) > 0 /\ higherScore = 0
        THEN [status |-> "panic", scores |-> batch]
        ELSE [status |-> "returned",
              scores |-> [i \in 1..Len(batch) |->
                            [batch[i] EXCEPT !.Score = Rescale(@, higherScore)]]]

NodeScore(name, score) == [Name |-> name, Score |-> score]

\* The scheduling framework calls NormalizeScore with the scores of all
\* nodes once every Score call of the cycle has returned Success.
HostNormalize ==
    /\ normStatus = "idle"
    /\ \A n \in Nodes : pc[n] = "done" /\ result[n].status = "Success"
    /\ LET batch == [n \in 1..NumNodes |-> NodeScore(n, result[n].score)]
           out == NormalizeScore(batch)
       IN  /\ rawScores' = batch
           /\ scores' = out.scores
           /\ normStatus' = out.status
    /\ UNCHANGED <<now, tokenVars, scoreVars, libVars>>

\* time passes
Tick ==
    /\ now < MaxTime
    /\ now' = now + 1
    /\ UNCHANGED <<tokenVars, scoreVars, normVars, libVars>>

NodeStep(n) ==
    \/ ScoreBegin(n)
    \/ GetTokenCheck(n)
    \/ GenerateTokenPost(n)
    \/ StoreToken(n)
    \/ StoreExpiry(n)
    \/ ReturnToken(n)
    \/ DoGet(n)

\* Score runs for all nodes of a cycle concurrently
Next ==
    \/ \E n \in Nodes : NodeStep(n)
    \/ Tick
    \/ HostNormalize

Spec == Init /\ [][Next]_vars

\* Sequential use: a Score call starts only when no other is in progress
Quiet(n) == \A m \in Nodes \ {n} : pc[m] \in {"Score", "done"}

NextSeq ==
    \/ \E n \in Nodes : Quiet(n) /\ NodeStep(n)
    \/ Tick
    \/ HostNormalize

SpecSeq == Init /\ [][NextSeq]_vars

(***************************************************************************)
(* NormalizeScore on its own, over batches of integer scores.              *)
(***************************************************************************)
RawValues == (0 - MaxRaw)..MaxRaw \cup {50, 100, 90000}

Batches ==
    UNION { { [i \in 1..k |-> NodeScore(i, f[i])] : f \in [1..k -> RawValues] } : k \in 0..MaxBatch }

InitNormalize ==
    /\ now = 1
    /\ tokenInfo = [Token |-> 0, Expiry |-> 0]
    /\ expiryFrom = 0
    /\ promised = 0
    /\ issued = 0
    /\ pc = [n \in Nodes |-> "done"]
    /\ phase = [n \in Nodes |-> "none"]
    /\ tokenResp = [n \in Nodes |-> NoTokenResp]
    /\ token = [n \in Nodes |-> 0]
    /\ tokPosts = [n \in Nodes |-> 0]
    /\ http = [n \in Nodes |-> <<>>]
    /\ wire = 0
    /\ labelRes = [n \in Nodes |-> "none"]
    /\ usageByEntity = [n \in Nodes |-> NoResponse]
    /\ usageSeries = [n \in Nodes |-> NoResponse]
    /\ result = [n \in Nodes |-> NoResult]
    /\ rawScores \in Batches
    /\ scores = rawScores
    /\ normStatus = "called"
    /\ ParamsIdle
    /\ ModelIdle

NormalizeCall ==
    /\ normStatus = "called"
    /\ LET out == NormalizeScore(rawScores)
       IN  /\ scores' = out.scores
           /\ normStatus' = out.status
    /\ UNCHANGED <<now, tokenVars, scoreVars, rawScores, libVars>>

NextNormalize == NormalizeCall

SpecNormalize == InitNormalize /\ [][NextNormalize]_vars

(***************************************************************************)
(* Properties of Score.                                                    *)
(***************************************************************************)
Finished(n) == pc[n] = "done" /\ result[n] # NoResult

\* C1: a Score call whose node is missing, or lacks the serial-number label,
\* returns score 0 with Success and has issued no token exchange and no GET.
C1_LabelMissIsNeutral ==
    \A n \in Nodes :
        (Finished(n) /\ labelRes[n] \in {"ErrNodeNotFound", "ErrLabelNotFound"})
            => /\ result[n] = [status |-> "Success", score |-> 0]
               /\ http[n] = <<>>

\* a call for a missing node has returned while the other node's call is
\* talking to the service
C1_Witness ==
    \E n, m \in Nodes :
        /\ Finished(n) /\ labelRes[n] = "ErrNodeNotFound"
        /\ result[n].status = "Success" /\ result[n].score = 0
        /\ m # n /\ http[m] # <<>>

EmptyAggregateFetched(n) ==
    /\ Finished(n)
    /\ usageByEntity[n].kind = "ok" /\ usageByEntity[n].Items = <<>>
    /\ usageSeries[n].kind = "ok"

\* C2 as stated: with an empty aggregate Score returns score 0 and no error
\* whatever the time-series response contains.
C2_AsStated ==
    \A n \in Nodes :
        EmptyAggregateFetched(n) => result[n] = [status |-> "Success", score |-> 0]

\* C2: with an empty aggregate Score returns score 0 and no error whenever the
\* time bucket of every sample of the time-series response parses.
C2_EmptyAggregateIsZero ==
    \A n \in Nodes :
        ( /\ EmptyAggregateFetched(n)
          /\ \A i \in DOMAIN usageSeries[n].Items : usageSeries[n].Items[i].TimeBucket.valid )
            => result[n] = [status |-> "Success", score |-> 0]

\* an empty aggregate met a series of samples that carry emissions
C2_Witness ==
    \E n \in Nodes :
        /\ EmptyAggregateFetched(n)
        /\ Len(usageSeries[n].Items) > 1
        /\ \A i \in DOMAIN usageSeries[n].Items : usageSeries[n].Items[i].TimeBucket.valid
        /\ \E i \in DOMAIN usageSeries[n].Items : usageSeries[n].Items[i].Co2eMetricTon = <<2>>
        /\ result[n] = [status |-> "Success", score |-> 0]

(***************************************************************************)
(* Properties of NormalizeScore.                                           *)
(***************************************************************************)
Normalized == normStatus \in {"returned", "panic"}

\* the largest raw score of a non-empty batch
MaxRawScore ==
    CHOOSE m \in {rawScores[i].Score : i \in DOMAIN rawScores} :
        \A i \in DOMAIN rawScores : rawScores[i].Score <= m

\* C3: NormalizeScore on a non-empty batch whose scores are all 0 returns
\* normally and leaves every score 0.
C3_AllZeroStaysZero ==
    ( /\ Normalized
      /\ Len(rawScores) > 0
      /\ \A i \in DOMAIN rawScores : rawScores[i].Score = 0 )
        => /\ normStatus = "returned"
           /\ \A i \in DOMAIN scores : scores[i].Score = 0

\* a / b rounded to the nearest integer, halves away from zero, for b > 0
RoundedQuotient(a, b) ==
    IF a >= 0 THEN (2 * a + b) \div (2 * b) ELSE 0 - ((2 * (0 - a) + b) \div (2 * b))

\* q is a / b with the fraction dropped, for b > 0
IsTruncatedQuotient(q, a, b) ==
    IF a >= 0 THEN q * b <= a /\ a < (q + 1) * b
              ELSE (q - 1) * b < a /\ a <= q * b

\* C4 as stated: with maximum raw score max > 0 every score s becomes
\* s * 100 / max rounded to the nearest integer.
C4_AsStated ==
    (normStatus = "returned" /\ Len(rawScores) > 0 /\ MaxRawScore > 0)
        => \A i \in DOMAIN rawScores :
              scores[i].Score = RoundedQuotient(rawScores[i].Score * 100, MaxRawScore)

\* every product score * MAX of the batch is an int64
ProductsFit ==
    \A i \in DOMAIN rawScores :
        /\ rawScores[i].Score * MaxNodeScore < 2^(IntBits - 1)
        /\ rawScores[i].Score * MaxNodeScore >= 0 - 2^(IntBits - 1)

\* C4: with maximum raw score max > 0, and scores whose product with 100 is
\* an int64, every score s becomes the integer quotient s * 100 / max with
\* its fraction dropped, so that the maximum becomes 100 and [100, 50, 0]
\* stays [100, 50, 0].
C4_TruncatedRescale ==
    (Normalized /\ Len(rawScores) > 0 /\ MaxRawScore > 0 /\ ProductsFit)
        => /\ normStatus = "returned"
           /\ Len(scores) = Len(rawScores)
           /\ \A i \in DOMAIN rawScores :
                /\ IsTruncatedQuotient(scores[i].Score, rawScores[i].Score * 100, MaxRawScore)
                /\ rawScores[i].Score = MaxRawScore => scores[i].Score = 100
           /\ (Len(rawScores) = 3 /\ rawScores[1].Score = 100 /\ rawScores[2].Score = 50
                 /\ rawScores[3].Score = 0)
                => scores = rawScores

\* a batch where dropping the fraction and rounding differ: 2 of 3 is 66
C4_Witness ==
    /\ normStatus = "returned"
    /\ Len(rawScores) = 2
    /\ rawScores[1].Score = 2 /\ rawScores[2].Score = 3
    /\ scores[1].Score = 66 /\ scores[2].Score = 100

\* C5: after NormalizeScore has returned every score lies in 0..100 and the
\* batch keeps its nodes, their number and positions.
C5_ScoresInRange ==
    normStatus = "returned"
        => /\ Len(scores) = Len(rawScores)
           /\ \A i \in DOMAIN scores :
                /\ scores[i].Name = rawScores[i].Name
                /\ 0 <= scores[i].Score /\ scores[i].Score <= 100

(***************************************************************************)
(* Properties of the TokenManager.                                         *)
(***************************************************************************)
\* the step of n's GetToken that reads the stored expiry
ChecksExpiry(n) == pc[n] = "GetToken" /\ pc'[n] # "GetToken"

\* the step of n's GenerateToken that receives a failed exchange
ExchangeFails(n) ==
    /\ pc[n] = "GenerateToken"
    /\ Len(http'[n]) = Len(http[n]) + 1
    /\ http'[n][Len(http'[n])] = [method |-> "POST", url |-> "token", ok |-> FALSE]

\* C6: a GetToken that finds the stored expiry in the future, or that runs
\* before t + e of a refresh stored at t with lifetime e > 0, makes no token
\* exchange and hands back the stored token.
C6_NoExchangeBeforeExpiry ==
    [][\A n \in Nodes :
          (ChecksExpiry(n) /\ (now < tokenInfo.Expiry \/ now < promised))
              => pc'[n] = "ReturnToken" /\ tokPosts'[n] = 0 /\ tokenInfo' = tokenInfo]_vars

\* C7: in sequential use a GetToken that finds the manager expired or unset
\* makes exactly one token exchange; when it succeeds the stored token is the
\* access_token, the stored expiry is now + expires_in, and the new token is
\* what GetToken returns.
C7_ExpiredRefreshesOnce ==
    [][\A n \in Nodes :
          /\ (ChecksExpiry(n) /\ now > tokenInfo.Expiry)
                => pc'[n] = "GenerateToken" /\ tokPosts'[n] = 0
          /\ (pc[n] = "GenerateToken" /\ pc'[n] # "GenerateToken")
                => /\ tokPosts[n] = 0
                   /\ Len(http'[n]) = Len(http[n]) + 1
                   /\ http'[n][Len(http'[n])].method = "POST"
                   /\ pc'[n] = "StoreToken" => tokPosts'[n] = 1
          /\ (pc[n] = "StoreExpiry" /\ pc'[n] # "StoreExpiry")
                => /\ tokenInfo'.Token = tokenResp[n].AccessToken
                   /\ tokenInfo'.Expiry = now + tokenResp[n].ExpiresIn
                   /\ pc'[n] = "ReturnToken"
          /\ (pc[n] = "ReturnToken" /\ pc'[n] # "ReturnToken" /\ tokPosts[n] > 0)
                => /\ tokPosts[n] = 1
                   /\ token'[n] = tokenResp[n].AccessToken
                   /\ token'[n] = tokenInfo.Token
                   /\ http'[n] = http[n]]_vars

\* a refresh of an expired, earlier stored token has been returned
C7_Witness ==
    \E n \in Nodes :
        /\ pc[n] = "Get" /\ tokPosts[n] = 1
        /\ token[n] = 2 /\ tokenInfo.Token = 2
        /\ tokenInfo.Expiry = now + 1 /\ now = 2

\* C8: a failed token exchange leaves the stored token and expiry as they
\* were, an expired manager stays expired, and the call ends with an error
\* and without a token.
C8_FailedExchangeKeepsState ==
    [][\A n \in Nodes :
          ExchangeFails(n)
              => /\ tokenInfo' = tokenInfo
                 /\ now > tokenInfo.Expiry => now' > tokenInfo'.Expiry
                 /\ token'[n] = 0
                 /\ pc'[n] = "done" /\ result'[n].status = "Error"]_vars

\* an exchange failed while an earlier token, now expired, was stored
C8_Witness ==
    \E n \in Nodes :
        /\ pc[n] = "done" /\ result[n].status = "Error"
        /\ Len(http[n]) > 0
        /\ http[n][Len(http[n])] = [method |-> "POST", url |-> "token", ok |-> FALSE]
        /\ tokenInfo.Token # 0 /\ now > tokenInfo.Expiry

\* C9: once no refresh is in progress, the stored token and the stored
\* expiry come from the same token-exchange response.
C9_PairIsConsistent ==
    (\A n \in Nodes : pc[n] \notin {"GenerateToken", "StoreToken", "StoreExpiry"})
        => tokenInfo.Token = expiryFrom

\* what Score returns for n on its own, from what n's call itself observed
AloneResult(n) ==
    IF labelRes[n] \in {"ErrNodeNotFound", "ErrLabelNotFound"}
    THEN [status |-> "Success", score |-> 0]
    ELSE IF labelRes[n] # "found" THEN [status |-> "Error", score |-> 0]
    ELSE IF \E i \in DOMAIN http[n] : ~http[n][i].ok THEN [status |-> "Error", score |-> 0]
    ELSE IF \E i \in DOMAIN usageSeries[n].Items : ~usageSeries[n].Items[i].TimeBucket.valid
    THEN [status |-> "Error", score |-> 0]
    ELSE IF usageByEntity[n].Items = <<>> THEN [status |-> "Success", score |-> 0]
    ELSE [status |-> "Success",
          score |-> ScaledScore(calculateSustainabilityScore(
                        usageByEntity[n].Items,
                        buildEmissionDataPoints(usageSeries[n].Items).dataPoints))]

C11_BadSampleIsFatal ==
    \A n \in Nodes :
        ( /\ Finished(n)
          /\ usageSeries[n].kind = "ok"
          /\ \E i \in DOMAIN usageSeries[n].Items : ~usageSeries[n].Items[i].TimeBucket.valid )
            => result[n] = [status |-> "Error", score |-> 0]

\* a good sample with emissions came before the bad one, and the aggregate
\* has an entity
C11_Witness ==
    \E n \in Nodes :
        /\ Finished(n)
        /\ usageByEntity[n].kind = "ok" /\ Len(usageByEntity[n].Items) > 0
        /\ usageSeries[n].kind = "ok" /\ Len(usageSeries[n].Items) = 2
        /\ usageSeries[n].Items[1].TimeBucket.valid
        /\ usageSeries[n].Items[1].Co2eMetricTon = <<3>>
        /\ ~usageSeries[n].Items[2].TimeBucket.valid
        /\ result[n].status = "Error"

\* C12: a failed token exchange, a failed telemetry GET, or a label lookup
\* that fails otherwise than by one of the two not-found errors, makes Score
\* return an error status with score 0.
C12_FailuresAreErrors ==
    \A n \in Nodes :
        ( /\ Finished(n)
          /\ \/ labelRes[n] = "failed to get node"
             \/ \E i \in DOMAIN http[n] : ~http[n][i].ok )
            => result[n] = [status |-> "Error", score |-> 0]

\* one call has ended on a failed series GET after a good aggregate, the
\* other on a failed label lookup
C12_Witness ==
    \E n, m \in Nodes :
        /\ Finished(n) /\ result[n].status = "Error"
        /\ usageByEntity[n].kind = "ok" /\ Len(usageByEntity[n].Items) > 0
        /\ http[n][Len(http[n])] = [method |-> "GET", url |-> "usage-series", ok |-> FALSE]
        /\ Finished(m) /\ result[m].status = "Error"
        /\ labelRes[m] = "failed to get node"

(***************************************************************************)
(* sicparams: Filter, Sort, Offset, Limit and Params.  A Go string is a    *)
(* string; a []string is a reference to a backing array in slices, which   *)
(* the Filter, its copies in Params and the caller share; any other value  *)
(* of the interface{} parameter is not modelled.                           *)
(***************************************************************************)
\* isValidKey
isValidKey(key) ==
    key \in {"entityId", "entityMake", "entityModel", "entityType", "entitySerialNum",
             "entityProductId", "locationName", "locationId", "locationCity",
             "locationState", "locationCountry", "name"}

\* variant of isValidOperator: the case list lacks FilterOperatorIn
isValidOperatorNoIn(operator) == operator \in {"eq", "contains"}

\* isValidOperator
isValidOperator(operator) == operator \in {"eq", "contains", "in"}

\* isValidSortKey
isValidSortKey(key) ==
    key \in {"entityId", "entityMake", "entityModel", "entityType", "entitySerialNum",
             "entityProductId", "locationName", "locationId", "locationCity",
             "locationState", "locationCountry", "name"}

\* isValidSortOrder
isValidSortOrder(order) == order \in {"asc", "desc"}

\* the interface{} value of a Filter
StringValue(str) == [kind |-> "string", str |-> str, ref |-> 0]
SliceValue(ref) == [kind |-> "slice", str |-> "", ref |-> ref]

\* NewFilter: (*Filter, error)
NewFilter(key, operator, v) ==
    IF ~isValidKey(key) THEN [status |-> "error", obj |-> <<>>]
    ELSE IF ~isValidOperator(operator) THEN [status |-> "error", obj |-> <<>>]
    ELSE [status |-> "ok", obj |-> <<[Key |-> key, Operator |-> operator, Value |-> v]>>]

\* NewSort: (*Sort, error)
NewSort(key, order) ==
    IF ~isValidSortKey(key) THEN [status |-> "error", obj |-> <<>>]
    ELSE IF ~isValidSortOrder(order) THEN [status |-> "error", obj |-> <<>>]
    ELSE [status |-> "ok", obj |-> <<[Key |-> key, Order |-> order]>>]

\* strings.Join
RECURSIVE Join(_, _)
Join(elems, sep) ==
    IF elems = <<>> THEN ""
    ELSE IF Len(elems) = 1 THEN elems[1]
    ELSE elems[1] \o sep \o Join(Tail(elems), sep)

\* formatInValues: quotes the elements of the slice in place, then joins them
formatInValues(values) ==
    LET quoted == [i \in DOMAIN values |-> "'" \o values[i] \o "'"]
    IN  [values |-> quoted, text |-> Join(quoted, ", ")]

\* the verb %v of fmt.Sprintf on the interface{} value
FormatV(v, heap) ==
    IF v.kind = "string" THEN v.str ELSE "[" \o Join(heap[v.ref], " ") \o "]"

\* Filter.GetValue on the backing arrays heap: the text, and the arrays as
\* the call leaves them.  The type assertion f.Value.([]string) panics on a
\* value that is not a []string.
FilterGetValue(f, heap) ==
    IF f.Operator = "in"
    THEN IF f.Value.kind # "slice"
         THEN [status |-> "panic", text |-> "", slices |-> heap]
         ELSE LET formatted == formatInValues(heap[f.Value.ref])
              IN  [status |-> "returned",
                   text |-> f.Key \o " in (" \o formatted.text \o ")",
                   slices |-> [heap EXCEPT ![f.Value.ref] = formatted.values]]
    ELSE IF f.Operator = "contains"
    THEN [status |-> "returned",
          text |-> "contains(" \o f.Key \o ", '" \o FormatV(f.Value, heap) \o "')",
          slices |-> heap]
    ELSE [status |-> "returned",
          text |-> f.Key \o " " \o f.Operator \o " '" \o FormatV(f.Value, heap) \o "'",
          slices |-> heap]

\* Sort.GetValue
SortGetValue(sort) == sort.Key \o " " \o sort.Order

\* the verb %d of fmt.Sprintf, for the integers of the model
Itoa(n) == <<"0", "1", "2", "3", "4", "5", "6", "7", "8", "9">>[n + 1]

\* Offset.GetValue, Limit.GetValue
OffsetGetValue(offset) == Itoa(offset)
LimitGetValue(limit) == Itoa(limit)

\* Params.AddFilter, AddSort, AddOffset, AddLimit
AddFilter(p, filter) == [p EXCEPT !.filters = Append(@, filter)]
AddSort(p, sort) == [p EXCEPT !.sorts = Append(@, sort)]
AddOffset(p, offset) == [p EXCEPT !.offset = Ptr(offset)]
AddLimit(p, limit) == [p EXCEPT !.limit = Ptr(limit)]

\* ToQueryParams, first loop: queryParams.Add("filter", filter.GetValue())
RECURSIVE FilterEntriesFrom(_, _, _, _)
FilterEntriesFrom(filters, i, heap, entries) ==
    IF i > Len(filters) THEN [status |-> "returned", entries |-> entries, slices |-> heap]
    ELSE LET got == FilterGetValue(filters[i], heap)
         IN  IF got.status = "panic"
             THEN [status |-> "panic", entries |-> entries, slices |-> got.slices]
             ELSE FilterEntriesFrom(filters, i + 1, got.slices, Append(entries, got.text))

\* Params.ToQueryParams: the url.Values, and the arrays as the call leaves them
ToQueryParams(p, heap) ==
    LET fromFilters == FilterEntriesFrom(p.filters, 1, heap, <<>>)
    IN  IF fromFilters.status = "panic"
        THEN [values |-> [NoQuery EXCEPT !.status = "panic"], slices |-> fromFilters.slices]
        ELSE [values |->
                [status |-> "returned",
                 filter |-> fromFilters.entries,
                 sort |-> [i \in DOMAIN p.sorts |-> SortGetValue(p.sorts[i])],
                 offset |-> IF p.offset = Nil THEN <<>> ELSE <<OffsetGetValue(p.offset[1])>>,
                 limit |-> IF p.limit = Nil THEN <<>> ELSE <<LimitGetValue(p.limit[1])>>],
              slices |-> fromFilters.slices]

(***************************************************************************)
(* Callers of sicparams.  The first constructs filters and sorts from keys,*)
(* operators and orders inside and outside the enumerations and renders    *)
(* the filter it was given; the second adds filters, sorts, an offset and  *)
(* a limit to one Params and then renders the Params.                      *)
(***************************************************************************)
KeyInputs == {"entitySerialNum", "entityMake", "serialNumber"}
OperatorInputs == {"eq", "contains", "in", "ne"}
SortKeyInputs == {"name", "hostname"}
OrderInputs == {"asc", "desc", "ascending"}
StringInputs == {"ABC123", "Dell"}
SliceInputs == {<<"a", "b">>}
IntInputs == {0, 5}

Args(key, second, kind, str, elems) ==
    [key |-> key, second |-> second, kind |-> kind, str |-> str, elems |-> elems]

\* what a constructor returned, with the arguments it was given
Called(returned, args) == [status |-> returned.status, obj |-> returned.obj, args |-> args]

\* a panic ends the process
Running == value.status # "panic" /\ query.status # "panic"

NewFilterCall ==
    /\ Running
    /\ renders = 0
    /\ \E key \in KeyInputs, operator \in OperatorInputs :
        \/ \E str \in StringInputs :
            /\ newFilter' = Called(NewFilter(key, operator, StringValue(str)),
                                   Args(key, operator, "string", str, <<>>))
            /\ UNCHANGED slices
        \/ \E elems \in SliceInputs :
            /\ Len(slices) < MaxSlices
            /\ slices' = Append(slices, elems)
            /\ newFilter' = Called(NewFilter(key, operator, SliceValue(Len(slices) + 1)),
                                   Args(key, operator, "slice", "", elems))
    /\ UNCHANGED <<newSort, sicParams, value, query, calls, renders>>
    /\ UNCHANGED <<now, tokenVars, scoreVars, normVars, modelVars>>

NewSortCall ==
    /\ Running
    /\ \E key \in SortKeyInputs, order \in OrderInputs :
        newSort' = Called(NewSort(key, order), Args(key, order, "none", "", <<>>))
    /\ UNCHANGED <<slices, newFilter, sicParams, value, query, calls, renders>>
    /\ UNCHANGED <<now, tokenVars, scoreVars, normVars, modelVars>>

\* GetValue on the filter that NewFilter returned last
GetValueCall ==
    /\ Running
    /\ newFilter.status = "ok"
    /\ renders < MaxRenders
    /\ LET got == FilterGetValue(newFilter.obj[1], slices)
       IN  /\ value' = [status |-> got.status, text |-> got.text]
           /\ slices' = got.slices
    /\ renders' = renders + 1
    /\ UNCHANGED <<newFilter, newSort, sicParams, query, calls>>
    /\ UNCHANGED <<now, tokenVars, scoreVars, normVars, modelVars>>

InitFilter == ScoreIdle /\ ParamsIdle /\ ModelIdle

NextFilter ==
    \/ NewFilterCall
    \/ NewSortCall
    \/ GetValueCall

SpecFilter == InitFilter /\ [][NextFilter]_vars

\* AddFilter with a filter that NewFilter has just returned
AddFilterCall ==
    /\ Running
    /\ renders = 0
    /\ Len(calls) < MaxCalls
    /\ \E key \in KeyInputs, operator \in OperatorInputs :
        \/ \E str \in StringInputs :
            LET made == NewFilter(key, operator, StringValue(str))
            IN  /\ made.status = "ok"
                /\ sicParams' = AddFilter(sicParams, made.obj[1])
                /\ calls' = Append(calls, [op |-> "AddFilter", int |-> 0,
                                           args |-> Args(key, operator, "string", str, <<>>)])
                /\ UNCHANGED slices
        \/ \E elems \in SliceInputs :
            LET made == NewFilter(key, operator, SliceValue(Len(slices) + 1))
            IN  /\ made.status = "ok"
                /\ Len(slices) < MaxSlices
                /\ slices' = Append(slices, elems)
                /\ sicParams' = AddFilter(sicParams, made.obj[1])
                /\ calls' = Append(calls, [op |-> "AddFilter", int |-> 0,
                                           args |-> Args(key, operator, "slice", "", elems)])
    /\ UNCHANGED <<newFilter, newSort, value, query, renders>>
    /\ UNCHANGED <<now, tokenVars, scoreVars, normVars, modelVars>>

\* AddSort with a sort that NewSort has just returned
AddSortCall ==
    /\ Running
    /\ renders = 0
    /\ Len(calls) < MaxCalls
    /\ \E key \in SortKeyInputs, order \in OrderInputs :
        LET made == NewSort(key, order)
        IN  /\ made.status = "ok"
            /\ sicParams' = AddSort(sicParams, made.obj[1])
            /\ calls' = Append(calls, [op |-> "AddSort", int |-> 0,
                                       args |-> Args(key, order, "none", "", <<>>)])
    /\ UNCHANGED <<slices, newFilter, newSort, value, query, renders>>
    /\ UNCHANGED <<now, tokenVars, scoreVars, normVars, modelVars>>

AddOffsetCall ==
    /\ Running
    /\ renders = 0
    /\ Len(calls) < MaxCalls
    /\ \E offset \in IntInputs :
        /\ sicParams' = AddOffset(sicParams, offset)
        /\ calls' = Append(calls, [op |-> "AddOffset", int |-> offset, args |-> NoArgs])
    /\ UNCHANGED <<slices, newFilter, newSort, value, query, renders>>
    /\ UNCHANGED <<now, tokenVars, scoreVars, normVars, modelVars>>

AddLimitCall ==
    /\ Running
    /\ renders = 0
    /\ Len(calls) < MaxCalls
    /\ \E limit \in IntInputs :
        /\ sicParams' = AddLimit(sicParams, limit)
        /\ calls' = Append(calls, [op |-> "AddLimit", int |-> limit, args |-> NoArgs])
    /\ UNCHANGED <<slices, newFilter, newSort, value, query, renders>>
    /\ UNCHANGED <<now, tokenVars, scoreVars, normVars, modelVars>>

ToQueryParamsCall ==
    /\ Running
    /\ renders < MaxRenders
    /\ LET got == ToQueryParams(sicParams, slices)
       IN  /\ query' = got.values
           /\ slices' = got.slices
    /\ renders' = renders + 1
    /\ UNCHANGED <<newFilter, newSort, sicParams, value, calls>>
    /\ UNCHANGED <<now, tokenVars, scoreVars, normVars, modelVars>>

InitParams == ScoreIdle /\ ParamsIdle /\ ModelIdle

NextParams ==
    \/ AddFilterCall
    \/ AddSortCall
    \/ AddOffsetCall
    \/ AddLimitCall
    \/ ToQueryParamsCall

SpecParams == InitParams /\ [][NextParams]_vars

(***************************************************************************)
(* Properties of sicparams.                                                *)
(***************************************************************************)
\* C13: NewFilter and NewSort return an object and no error when key and
\* operator, or key and order, are inside the closed enumerations, and an
\* error and no object otherwise.
C13_ConstructorsValidate ==
    LET keys == {"entityId", "entityMake", "entityModel", "entityType", "entitySerialNum",
                 "entityProductId", "locationName", "locationId", "locationCity",
                 "locationState", "locationCountry", "name"}
    IN  /\ newFilter.status # "none" =>
              IF newFilter.args.key \in keys /\ newFilter.args.second \in {"eq", "contains", "in"}
              THEN /\ newFilter.status = "ok"
                   /\ Len(newFilter.obj) = 1
                   /\ newFilter.obj[1].Key = newFilter.args.key
                   /\ newFilter.obj[1].Operator = newFilter.args.second
              ELSE newFilter.status = "error" /\ newFilter.obj = <<>>
        /\ newSort.status # "none" =>
              IF newSort.args.key \in keys /\ newSort.args.second \in {"asc", "desc"}
              THEN /\ newSort.status = "ok"
                   /\ newSort.obj = <<[Key |-> newSort.args.key, Order |-> newSort.args.second]>>
              ELSE newSort.status = "error" /\ newSort.obj = <<>>

\* a filter with operator in was constructed, and a sort with an order
\* outside the enumeration was refused
C13_Witness ==
    /\ newFilter.status = "ok" /\ newFilter.args.second = "in"
    /\ newSort.status = "error" /\ newSort.args = Args("name", "ascending", "none", "", <<>>)

\* C14: GetValue on a Filter that NewFilter returned without error yields a
\* string and does not fault.
C14_GetValueNeverFaults ==
    (newFilter.status = "ok" /\ renders > 0) => value.status = "returned"

\* the members of an in filter, each quoted once, joined by comma-space
RECURSIVE QuotedMembers(_)
QuotedMembers(elems) ==
    IF elems = <<>> THEN ""
    ELSE "'" \o Head(elems) \o "'"
            \o (IF Len(elems) > 1 THEN ", " ELSE "") \o QuotedMembers(Tail(elems))

\* the form the operator of a filter selects, for the arguments of NewFilter
RenderedForm(args) ==
    IF args.second = "in" THEN args.key \o " in (" \o QuotedMembers(args.elems) \o ")"
    ELSE IF args.second = "contains" THEN "contains(" \o args.key \o ", '" \o args.str \o "')"
    ELSE args.key \o " eq '" \o args.str \o "'"

\* the value has the shape the operator is meant for
WellShaped(args) == (args.second = "in") = (args.kind = "slice")

\* C15: GetValue renders key eq 'value' for eq, contains(key, 'value') for
\* contains, and key in ('v1', ..., 'vn') for in, each member quoted once.
C15_GetValueRendersForm ==
    (newFilter.status = "ok" /\ WellShaped(newFilter.args) /\ value.status = "returned")
        => value.text = RenderedForm(newFilter.args)

\* the arguments of the calls of one kind made on sicParams, in order
CallsOf(op) == SelectSeq(calls, LAMBDA c : c.op = op)

\* C16: ToQueryParams yields one filter entry per AddFilter call and one sort
\* entry per AddSort call, in the order of the calls, and an offset and a
\* limit entry exactly when AddOffset and AddLimit were called.
C16_QueryKeepsAllParams ==
    query.status # "none"
        => /\ query.status = "returned"
           /\ Len(query.filter) = Len(CallsOf("AddFilter"))
           /\ \A i \in DOMAIN query.filter :
                WellShaped(CallsOf("AddFilter")[i].args)
                    => query.filter[i] = RenderedForm(CallsOf("AddFilter")[i].args)
           /\ query.sort = [i \in DOMAIN CallsOf("AddSort") |->
                                CallsOf("AddSort")[i].args.key \o " "
                                    \o CallsOf("AddSort")[i].args.second]
           /\ Len(query.offset) = (IF CallsOf("AddOffset") = <<>> THEN 0 ELSE 1)
           /\ Len(query.limit) = (IF CallsOf("AddLimit") = <<>> THEN 0 ELSE 1)

(***************************************************************************)
(* The scoring model on its own: CalculateScore over profiles and weights, *)
(* and the part of Score that follows the two fetches.                     *)
(***************************************************************************)
\* weights that ValidateGreenSchedulingArgs accepts
WeightInputs ==
    [CO2DecayWeight : 0..MaxWeight, TotalCO2Weight : 0..MaxWeight,
     CostWeight : 0..MaxWeight, DecayRate10 : 0..MaxRate10]

EntityInputs == EntityItems \cup { <<Entity(Nil, Ptr(1))>> }

SeriesInputs ==
    SeriesItems \cup { <<Sample(TRUE, 2, Ptr(1)), Sample(TRUE, 2, Ptr(2)), Sample(TRUE, 2, Ptr(3))>> }

InitScoring ==
    /\ ScoreIdle
    /\ ParamsIdle
    /\ scoreIn \in [entity : EntityInputs, series : SeriesInputs, weights : WeightInputs]
    /\ scoreOut = NoScoreOut
    /\ decayIn = NoDecayIn
    /\ decayOut = NoDecayOut
    /\ sumIn = NoSumIn
    /\ sumOut = NoSumOut

\* sustainabilityprofile.New on the first entity's totals and the mapped
\* series, then CalculateScore with the weights
CalculateScoreCall ==
    /\ ~scoreOut.calculated
    /\ Len(scoreIn.entity) > 0
    /\ ~buildEmissionDataPoints(scoreIn.series).err
    /\ scoreOut' = [scoreOut EXCEPT
            !.calculated = TRUE,
            !.score = CalculateScore(
                        [Emissions |-> buildEmissionDataPoints(scoreIn.series).dataPoints,
                         TotalCo2 |-> GetCo2eMetricTon(scoreIn.entity[1]),
                         TotalCost |-> GetCostUsd(scoreIn.entity[1])],
                        scoreIn.weights)]
    /\ UNCHANGED <<now, tokenVars, scoreVars, normVars, paramVars, scoreIn, decayIn, decayOut,
                   sumIn, sumOut>>

\* Score from the decoded responses on, with the weights of config
ScoreCall ==
    /\ ~scoreOut.returned
    /\ scoreOut' = [scoreOut EXCEPT
            !.returned = TRUE,
            !.result = ScoreOf(scoreIn.entity, scoreIn.series)]
    /\ UNCHANGED <<now, tokenVars, scoreVars, normVars, paramVars, scoreIn, decayIn, decayOut,
                   sumIn, sumOut>>

NextScoring == CalculateScoreCall \/ ScoreCall

SpecScoring == InitScoring /\ [][NextScoring]_vars

(***************************************************************************)
(* CalculateDecayFactor on its own: two samples against one latest time.   *)
(***************************************************************************)
InitDecay ==
    /\ ScoreIdle
    /\ ParamsIdle
    /\ scoreIn = NoScoreIn
    /\ scoreOut = NoScoreOut
    /\ decayIn \in [rate10 : 0..MaxRate10, latest : 0..MaxHours,
                    first : 0..MaxHours, second : 0..MaxHours]
    /\ decayOut = NoDecayOut
    /\ sumIn = NoSumIn
    /\ sumOut = NoSumOut

CalculateDecayFactorCall ==
    /\ decayOut.status = "none"
    /\ LET decayParams == NewDecayParameters(decayIn.latest, decayIn.rate10)
       IN  decayOut' =
             [status |-> "done",
              first |-> CalculateDecayFactor([Co2 |-> 1, Time |-> decayIn.first], decayParams),
              second |-> CalculateDecayFactor([Co2 |-> 1, Time |-> decayIn.second], decayParams)]
    /\ UNCHANGED <<now, tokenVars, scoreVars, normVars, paramVars, scoreIn, scoreOut, decayIn,
                   sumIn, sumOut>>

NextDecay == CalculateDecayFactorCall

SpecDecay == InitDecay /\ [][NextDecay]_vars

(***************************************************************************)
(* Properties of the scoring model.                                        *)
(***************************************************************************)
\* a nullable number read with null as 0
OrZero(ptr) == IF ptr = <<>> THEN 0 ELSE ptr[1]

\* C17: for a profile without emissions the score is
\* totalCo2Weight * totalCo2 + costWeight / (1 + totalCost), whatever the
\* decay weight and the decay rate are.
C17_EmptyEmissionsScore ==
    (scoreOut.calculated /\ scoreIn.series = <<>>)
        => LET totalCo2 == OrZero(scoreIn.entity[1].Co2eMetricTon)
               totalCost == OrZero(scoreIn.entity[1].CostUsd)
           IN  /\ scoreOut.score.den = 1 + totalCost
               /\ scoreOut.score.num =
                      scoreIn.weights.TotalCO2Weight * totalCo2 * 1000000 * (1 + totalCost)
                          + scoreIn.weights.CostWeight * 1000000

\* totals 10 and 5 without emissions under decay weight 2, decay rate 0.2
\* and weights 2 and 1: 20 + 1/6
C17_Witness ==
    /\ scoreOut.calculated /\ scoreIn.series = <<>>
    /\ scoreIn.entity = <<Entity(Ptr(10), Ptr(5))>>
    /\ scoreIn.weights =
          [CO2DecayWeight |-> 2, TotalCO2Weight |-> 2, CostWeight |-> 1, DecayRate10 |-> 2]
    /\ scoreOut.score = [num |-> 121000000, den |-> 6]

\* the two samples of decayIn are not later than the latest time
BothElapsed == decayIn.first <= decayIn.latest /\ decayIn.second <= decayIn.latest

\* C18 as stated: for every rate r >= 0 and elapsed time dh >= 0 the factor
\* lies in (0, 0.5], is 0.5 at dh = 0 and is strictly decreasing in dh.
C18_AsStated ==
    (decayOut.status = "done" /\ BothElapsed)
        => /\ 0 < decayOut.first /\ decayOut.first <= 500000
           /\ decayIn.first = decayIn.latest => decayOut.first = 500000
           /\ decayIn.first > decayIn.second => decayOut.first > decayOut.second

\* C18: for every rate r > 0 and elapsed time dh >= 0 the factor lies in
\* (0, 0.5], is 0.5 at dh = 0 and is strictly decreasing in dh; for r = 0 it
\* is 0.5 for every dh >= 0.
C18_DecayFactorRange ==
    (decayOut.status = "done" /\ BothElapsed)
        => /\ 0 < decayOut.first /\ decayOut.first <= 500000
           /\ decayIn.first = decayIn.latest => decayOut.first = 500000
           /\ (decayIn.rate10 > 0 /\ decayIn.first > decayIn.second)
                => decayOut.first > decayOut.second
           /\ decayIn.rate10 = 0 => decayOut.first = 500000 /\ decayOut.second = 500000

\* rate 0.2: a sample at the latest time and one three hours older
C18_Witness ==
    /\ decayOut.status = "done"
    /\ decayIn = [rate10 |-> 2, latest |-> 4, first |-> 4, second |-> 1]
    /\ decayOut.first = 500000
    /\ decayOut.second > 0 /\ decayOut.second < 500000

\* the latest time bucket of the samples, and the sum of the decayed emissions
LatestHour(series) ==
    CHOOSE h \in {series[i].TimeBucket.hour : i \in DOMAIN series} :
        \A i \in DOMAIN series : series[i].TimeBucket.hour <= h

RECURSIVE DecayedSum(_, _, _)
DecayedSum(series, latest, rate10) ==
    IF series = <<>> THEN 0
    ELSE DecayTable[rate10 * (latest - Head(series).TimeBucket.hour) + 1]
            * OrZero(Head(series).Co2eMetricTon)
         + DecayedSum(Tail(series), latest, rate10)

\* 1000 times the score of the claim, as a fraction, for the weights of config
ClaimedScore(entity, series) ==
    LET totalCo2 == OrZero(entity[1].Co2eMetricTon)
        totalCost == OrZero(entity[1].CostUsd)
        decayedSum == IF series = <<>> THEN 0
                      ELSE DecayedSum(series, LatestHour(series), 1)
    IN  [num |-> (2 * decayedSum + 1 * totalCo2 * 1000000) * (1 + totalCost) + 1 * 1000000,
         den |-> (1 + totalCost) * 1000]

\* C19: with at least one entity in the aggregate and every time bucket
\* parsed, Score returns 1000 * (co2DecayWeight * decayedSum + totalCo2Weight
\* * totalCo2 + costWeight / (1 + totalCost)) with its fraction dropped, the
\* totals being those of the first entity with null read as 0; totals 10 and
\* 5 with samples 1, 2, 3 at one time give 1000 * (6 + 10 + 1/6).
C19_ScoreFormula ==
    ( /\ scoreOut.returned
      /\ Len(scoreIn.entity) > 0
      /\ \A i \in DOMAIN scoreIn.series : scoreIn.series[i].TimeBucket.valid )
        => LET claimed == ClaimedScore(scoreIn.entity, scoreIn.series)
               quotient == IF claimed.num >= 0 THEN claimed.num \div claimed.den
                           ELSE 0 - ((0 - claimed.num) \div claimed.den)
           IN  /\ scoreOut.result = [status |-> "Success", score |-> quotient]
               /\ ( /\ scoreIn.entity = <<Entity(Ptr(10), Ptr(5))>>
                    /\ Len(scoreIn.series) = 3
                    /\ \A i \in 1..3 : scoreIn.series[i] = Sample(TRUE, 2, Ptr(i)) )
                    => scoreOut.result.score = 16166

\* the claim's example has been scored
C19_Witness ==
    /\ scoreOut.returned
    /\ scoreIn.entity = <<Entity(Ptr(10), Ptr(5))>>
    /\ scoreIn.series = <<Sample(TRUE, 2, Ptr(1)), Sample(TRUE, 2, Ptr(2)), Sample(TRUE, 2, Ptr(3))>>
    /\ scoreOut.result = [status |-> "Success", score |-> 16166]

(***************************************************************************)
(* The order of the steps of one Score call, read from the requests the    *)
(* call has sent.                                                          *)
(***************************************************************************)
\* the GETs a node's Score call has sent so far, in order
GetsOf(n) == SelectSeq(http[n], LAMBDA r : r.method = "GET")

\* the telemetry endpoints in the order fetchSicData calls them
EndpointOrder == <<"usage-by-entity", "usage-series">>

\* C20: within one Score call nothing is sent before the label lookup has
\* found the serial number, the GETs go to the aggregate endpoint and then
\* to the series endpoint, each endpoint receives at most one GET, the series
\* GET is sent only after the aggregate GET succeeded, and a score is
\* computed from the telemetry only after both GETs succeeded.
C20_PipelineOrder ==
    \A n \in Nodes :
        LET gets == GetsOf(n)
        IN  /\ pc[n] = "Score" => (labelRes[n] = "none" /\ http[n] = <<>>)
            /\ http[n] # <<>> => labelRes[n] = "found"
            /\ Len(gets) <= Len(EndpointOrder)
            /\ \A i \in 1..Len(gets) : gets[i].url = EndpointOrder[i]
            /\ Len(gets) = 2 => gets[1].ok
            /\ (phase[n] = "usage-by-entity") => gets = <<>>
            /\ (phase[n] = "usage-series") => Len(gets) = 1
            /\ (Finished(n) /\ labelRes[n] = "found" /\ result[n].status = "Success")
                   => (Len(gets) = 2 /\ gets[2].ok)
            /\ (Finished(n) /\ gets # <<>> /\ ~gets[Len(gets)].ok) => result[n] = Error

\* one call has stopped at a failed aggregate GET and the other has scored
\* its node from both responses
C20_Witness ==
    \E n, m \in Nodes :
        /\ Finished(n)
        /\ Len(GetsOf(n)) = 1
        /\ ~GetsOf(n)[1].ok
        /\ result[n] = Error
        /\ Finished(m)
        /\ Len(GetsOf(m)) = 2
        /\ result[m].status = "Success"
        /\ result[m].score > 0

(***************************************************************************)
(* The bearer token of a telemetry GET.                                    *)
(***************************************************************************)
\* the step appends a GET to the requests of node n
SendsGet(n) ==
    /\ Len(http'[n]) = Len(http[n]) + 1
    /\ http'[n][Len(http'[n])].method = "GET"

\* the step is a token exchange of node n that failed, so that GetToken
\* returns an error
GetTokenFails(n) ==
    /\ pc[n] = "GenerateToken"
    /\ Len(http'[n]) = Len(http[n]) + 1
    /\ ~http'[n][Len(http'[n])].ok

\* C21: a GET is sent only by a client call to which GetToken has returned
\* a token, and its Authorization header carries exactly that token; a
\* client call whose GetToken fails returns an error and sends no GET.
C21_GetCarriesReturnedToken ==
    [][\A n \in Nodes :
          /\ (pc[n] # "Get" /\ pc'[n] = "Get")
                => (pc[n] = "ReturnToken" /\ token'[n] = tokenInfo.Token)
          /\ (pc[n] = "Get" /\ pc'[n] = "Get") => token'[n] = token[n]
          /\ SendsGet(n) => (pc[n] = "Get" /\ wire' = token[n])
          /\ GetTokenFails(n)
                => /\ http'[n][Len(http'[n])].method = "POST"
                   /\ pc'[n] = "done"
                   /\ result'[n] = Error
          /\ pc[n] = "done" => http'[n] = http[n]]_vars

\* a GET has gone out with a token that the store no longer holds, and
\* another call has returned an error after a failed exchange without a GET
C21_Witness ==
    \E n, m \in Nodes :
        /\ GetsOf(n) # <<>>
        /\ wire # 0
        /\ wire # tokenInfo.Token
        /\ Finished(m)
        /\ result[m] = Error
        /\ http[m] # <<>>
        /\ GetsOf(m) = <<>>

(***************************************************************************)
(* calculateCO2WeightedScore in floating point.  Go computes in float64,   *)
(* whose results are rounded to 53 significant bits, ties to even; the     *)
(* model rounds millionths to MantissaBits significant bits the same way.  *)
(***************************************************************************)
\* the weight of the last significant bit of x
RECURSIVE UlpFrom(_, _)
UlpFrom(x, q) == IF x < q * 2^MantissaBits THEN q ELSE UlpFrom(x, 2 * q)

\* the floating-point number nearest to x >= 0, ties to even
Float(x) ==
    LET q == UlpFrom(x, 1)
        r == x % q
        lo == x - r
    IN  IF 2 * r < q THEN lo
        ELSE IF 2 * r > q THEN lo + q
        ELSE IF (lo \div q) % 2 = 0 THEN lo ELSE lo + q

\* variant of latestTimeOf: the first point is taken as the latest
latestTimeOfFirst(emissions) == emissions[1].Time

\* the first loop of calculateCO2WeightedScore: latestTime starts at
\* Emissions[0].Time and is raised by every later point
latestTimeOf(emissions) == LatestTimeFrom(emissions, 1, emissions[1].Time)

\* params.LatestTime.Sub(e.Time).Hours() for every point
ElapsedOf(emissions, latestTime) ==
    [i \in 1..Len(emissions) |-> latestTime - emissions[i].Time]

\* the decay factor of every point
FactorsOf(emissions, latestTime, decayRate10) ==
    [i \in 1..Len(emissions) |->
        CalculateDecayFactor(emissions[i], NewDecayParameters(latestTime, decayRate10))]

\* the second loop: weightedCO2 += decayFactor * emission.Co2, in float64
RECURSIVE WeightedCO2Float(_, _, _, _, _)
WeightedCO2Float(emissions, i, latestTime, decayRate10, weightedCO2) ==
    IF i > Len(emissions) THEN weightedCO2
    ELSE WeightedCO2Float(emissions, i + 1, latestTime, decayRate10,
            Float(weightedCO2
                  + Float(CalculateDecayFactor(emissions[i],
                              NewDecayParameters(latestTime, decayRate10))
                          * emissions[i].Co2)))

\* calculateCO2WeightedScore on at least one point, with what it computed on
\* the way
calculateCO2WeightedScoreFloat(emissions, co2Weight, decayRate10) ==
    LET latestTime == latestTimeOf(emissions)
    IN  [called |-> TRUE,
         latestTime |-> latestTime,
         elapsed |-> ElapsedOf(emissions, latestTime),
         factors |-> FactorsOf(emissions, latestTime, decayRate10),
         score |-> Float(co2Weight
                         * WeightedCO2Float(emissions, 1, latestTime, decayRate10, 0))]

\* the emission points of a profile: CO2 in tons, time in hours
PointInputs == [Co2 : {1, 2, 3}, Time : {0, 1, 2}]

\* profiles of three points, in any order
EmissionInputs == [1..3 -> PointInputs]

\* the orders in which the same three points can arrive
OrderInputs3 == { o \in [1..3 -> 1..3] : \A i, j \in 1..3 : o[i] = o[j] => i = j }

Reordered(emissions, order) == [i \in 1..Len(emissions) |-> emissions[order[i]]]

InitSum ==
    /\ ScoreIdle
    /\ ParamsIdle
    /\ scoreIn = NoScoreIn
    /\ scoreOut = NoScoreOut
    /\ decayIn = NoDecayIn
    /\ decayOut = NoDecayOut
    /\ sumIn \in [emissions : EmissionInputs, order : OrderInputs3, rate10 : 0..MaxRate10]
    /\ sumOut = NoSumOut

\* the profile scored with its points as given
SumGivenCall ==
    /\ ~sumOut.given.called
    /\ sumOut' = [sumOut EXCEPT !.given =
            calculateCO2WeightedScoreFloat(sumIn.emissions, config.CO2DecayWeight, sumIn.rate10)]
    /\ UNCHANGED <<now, tokenVars, scoreVars, normVars, paramVars, scoreIn, scoreOut,
                   decayIn, decayOut, sumIn>>

\* the profile scored with the same points in the other order
SumReorderedCall ==
    /\ ~sumOut.reordered.called
    /\ sumOut' = [sumOut EXCEPT !.reordered =
            calculateCO2WeightedScoreFloat(Reordered(sumIn.emissions, sumIn.order),
                                           config.CO2DecayWeight, sumIn.rate10)]
    /\ UNCHANGED <<now, tokenVars, scoreVars, normVars, paramVars, scoreIn, scoreOut,
                   decayIn, decayOut, sumIn>>

NextSum == SumGivenCall \/ SumReorderedCall

SpecSum == InitSum /\ [][NextSum]_vars

(***************************************************************************)
(* Properties of the reference time and of the order of the points.        *)
(***************************************************************************)
BothSummed == sumOut.given.called /\ sumOut.reordered.called

\* the latest of the timestamps of the points
MaxTimeOf(emissions) ==
    CHOOSE t \in { emissions[i].Time : i \in 1..Len(emissions) } :
        \A i \in 1..Len(emissions) : emissions[i].Time <= t

\* the reference time is the latest timestamp and no point lies after it
ReferenceIsLatest(out, emissions) ==
    /\ out.latestTime = MaxTimeOf(emissions)
    /\ \A i \in 1..Len(emissions) : out.elapsed[i] >= 0

C23_SerializationIsRepeatable ==
    [][renders' = renders + 1
          => /\ slices' = slices
             /\ renders >= 1 => query' = query]_vars

(***************************************************************************)
(* The ranking of the nodes after NormalizeScore.                          *)
(***************************************************************************)
\* a node with the lower raw score never gets the higher normalized score,
\* and every node with the maximum raw score gets MaxNodeScore
RankingKept ==
    /\ \A i, j \in DOMAIN rawScores :
          rawScores[i].Score <= rawScores[j].Score => scores[i].Score <= scores[j].Score
    /\ \A i \in DOMAIN rawScores :
          rawScores[i].Score = MaxRawScore => scores[i].Score = MaxNodeScore

=============================================================================
